---- MODULE Spec2Model ----
(***************************************************************************)
(* Model of PlaceholderReplacerByID.process and its helpers                *)
(* (src/PlaceholderReplacerByID.py).                                       *)
(*                                                                         *)
(* A Python str is a sequence of one-character strings.  A Python value    *)
(* that may be an int, a str, a list or None is a record                   *)
(* [tag, val, txt, items] with tag "int" (val), "str" (txt), "list"        *)
(* (items) or "none".  process runs as a chain of steps,                   *)
(* one action per block of the function body; pc names the next block, and *)
(* pc = "raised" is an exception leaving process.                          *)
(***************************************************************************)
EXTENDS Integers, Sequences, FiniteSets, TLC

\* ------------------------------------------------------------------------
\* Python values
\* ------------------------------------------------------------------------
IntV(n) == [tag |-> "int", val |-> n, txt |-> <<>>, items |-> <<>>]
StrV(s) == [tag |-> "str", val |-> 0, txt |-> s, items |-> <<>>]
NoneV == [tag |-> "none", val |-> 0, txt |-> <<>>, items |-> <<>>]
\* A native list of values (the INT_LIST input).
ListV(xs) == [tag |-> "list", val |-> 0, txt |-> <<>>, items |-> xs]

\* The literal "NOT_FOUND" of lines 118, 229, 248, 250, 254.
NOT_FOUND == <<"N", "O", "T", "_", "F", "O", "U", "N", "D">>
\* Faulty variant: a separator one character short.
OUT_SEP_short == <<";", ";", ";", ";">>

\* The fixed output separator of line 240.
OUT_SEP == <<";", ";", ";", ";", ";">>

\* ------------------------------------------------------------------------
\* Python str built-ins, computed as CPython computes them
\* ------------------------------------------------------------------------
DigitChars == <<"0", "1", "2", "3", "4", "5", "6", "7", "8", "9">>
Digits == {DigitChars[i] : i \in 1..10}
DigitVal(c) == (CHOOSE i \in 1..10 : DigitChars[i] = c) - 1
\* str.strip() and the regex class \s: the ASCII whitespace of the model.
WS == {" ", "\t", "\n", "\r"}

RECURSIVE Find(_, _, _)
\* s.find(sub, start): least index >= start (1-based) where sub occurs, 0 if none.
Find(s, sub, start) ==
  IF start + Len(sub) - 1 > Len(s) THEN 0
  ELSE IF SubSeq(s, start, start + Len(sub) - 1) = sub THEN start
  ELSE Find(s, sub, start + 1)

RECURSIVE PySplit(_, _)
\* s.split(sep) for a non-empty sep: leftmost, non-overlapping separators.
PySplit(s, sep) ==
  LET i == Find(s, sep, 1)
  IN IF i = 0 THEN <<s>>
     ELSE <<SubSeq(s, 1, i - 1)>> \o PySplit(SubSeq(s, i + Len(sep), Len(s)), sep)

\* s.split(sep, 1)
PySplit1(s, sep) ==
  LET i == Find(s, sep, 1)
  IN IF i = 0 THEN <<s>>
     ELSE <<SubSeq(s, 1, i - 1), SubSeq(s, i + Len(sep), Len(s))>>

RECURSIVE PyReplace(_, _, _)
\* s.replace(old, new) for a non-empty old: every leftmost non-overlapping match.
PyReplace(s, old, new) ==
  LET i == Find(s, old, 1)
  IN IF i = 0 THEN s
     ELSE SubSeq(s, 1, i - 1) \o new
            \o PyReplace(SubSeq(s, i + Len(old), Len(s)), old, new)

RECURSIVE PyJoin(_, _)
\* sep.join(parts)
PyJoin(parts, sep) ==
  IF parts = <<>> THEN <<>>
  ELSE IF Len(parts) = 1 THEN parts[1]
  ELSE parts[1] \o sep \o PyJoin(Tail(parts), sep)

RECURSIVE LStrip(_, _)
\* s.lstrip(chars)
LStrip(s, chars) ==
  IF s # <<>> /\ s[1] \in chars THEN LStrip(Tail(s), chars) ELSE s

RECURSIVE RStrip(_, _)
RStrip(s, chars) ==
  IF s # <<>> /\ s[Len(s)] \in chars THEN RStrip(SubSeq(s, 1, Len(s) - 1), chars) ELSE s

\* s.strip()
Strip(s) == RStrip(LStrip(s, WS), WS)

\* s.isdigit() over ASCII
IsDigit(s) == s # <<>> /\ \A i \in 1..Len(s) : s[i] \in Digits

\* s.startswith(p), s.endswith(p) for a one-character p
StartsWith(s, c) == s # <<>> /\ s[1] = c
EndsWith(s, c) == s # <<>> /\ s[Len(s)] = c

RECURSIVE DigitsValue(_)
\* The value of a string of digits and underscores, underscores skipped.
DigitsValue(s) ==
  IF s = <<>> THEN 0
  ELSE IF s[Len(s)] = "_" THEN DigitsValue(SubSeq(s, 1, Len(s) - 1))
  ELSE 10 * DigitsValue(SubSeq(s, 1, Len(s) - 1)) + DigitVal(s[Len(s)])

\* The digit part of an int() literal: digits, single underscores between them.
DigitBody(s) ==
  /\ s # <<>>
  /\ s[1] \in Digits /\ s[Len(s)] \in Digits
  /\ \A i \in 1..Len(s) : s[i] \in Digits \cup {"_"}
  /\ \A i \in 1..(Len(s) - 1) : ~(s[i] = "_" /\ s[i + 1] = "_")

\* int(s) for a str s: surrounding whitespace, one optional sign, digits.
\* [ok |-> FALSE] is ValueError.
PyIntStr(s) ==
  LET t == Strip(s)
      signed == t # <<>> /\ t[1] \in {"-", "+"}
      body == IF signed THEN Tail(t) ELSE t
  IN IF DigitBody(body)
     THEN [ok |-> TRUE,
           val |-> IF signed /\ t[1] = "-" THEN 0 - DigitsValue(body) ELSE DigitsValue(body)]
     ELSE [ok |-> FALSE, val |-> 0]

\* int(v) for a value: an int is itself, a str is parsed, None is TypeError.
PyInt(v) ==
  IF v.tag = "int" THEN [ok |-> TRUE, val |-> v.val]
  ELSE IF v.tag = "str" THEN PyIntStr(v.txt)
  ELSE [ok |-> FALSE, val |-> 0]

RECURSIVE NatToStr(_)
NatToStr(n) ==
  IF n < 10 THEN <<DigitChars[n + 1]>>
  ELSE NatToStr(n \div 10) \o <<DigitChars[(n % 10) + 1]>>

\* str(n) / f"{n}" for an int
IntToStr(n) == IF n < 0 THEN <<"-">> \o NatToStr(0 - n) ELSE NatToStr(n)

\* s.splitlines() with "\n" the only line boundary of the model's alphabet:
\* the pieces between newlines, without a final empty piece.
SplitLines(s) ==
  LET parts == PySplit(s, <<"\n">>)
  IN IF parts[Len(parts)] = <<>> THEN SubSeq(parts, 1, Len(parts) - 1) ELSE parts

RECURSIVE ReSplit(_, _)
\* re.split(r"[;,\s]+", s): cut at every maximal run of separator characters.
ReSplit(s, seps) ==
  IF \A i \in 1..Len(s) : s[i] \notin seps THEN <<s>>
  ELSE LET i == CHOOSE k \in 1..Len(s) :
                  s[k] \in seps /\ \A j \in 1..(k - 1) : s[j] \notin seps
       IN <<SubSeq(s, 1, i - 1)>> \o ReSplit(LStrip(SubSeq(s, i, Len(s)), seps), seps)

\* ------------------------------------------------------------------------
\* Helpers (lines 68-140)
\* ------------------------------------------------------------------------
\* A decimal integer literal of Python source: no leading zero unless zero.
PyIntLiteral(b) ==
  DigitBody(b) /\ (b[1] # "0" \/ \A i \in 1..Len(b) : b[i] \in {"0", "_"})

\* One element of a list display as ast.literal_eval accepts it: an integer
\* literal under at most one unary sign.
LiteralItem(p) ==
  LET t == Strip(p)
      signed == t # <<>> /\ t[1] \in {"-", "+"}
      body == IF signed THEN LStrip(Tail(t), WS) ELSE t
  IN IF PyIntLiteral(body)
     THEN [ok |-> TRUE,
           val |-> IF signed /\ t[1] = "-" THEN 0 - DigitsValue(body) ELSE DigitsValue(body)]
     ELSE [ok |-> FALSE, val |-> 0]

\* ast.literal_eval(s) for s = "[" inner "]" where inner holds no bracket, no
\* quote and no letter that starts a literal: a list display of signed integer
\* literals, with an optional trailing comma.  [ok |-> FALSE] is the exception
\* (SyntaxError or ValueError) that line 88 swallows.
LiteralEvalFlat(s) ==
  LET inner == SubSeq(s, 2, Len(s) - 1)
      pieces == PySplit(inner, <<",">>)
      items == IF Len(pieces) >= 2 /\ Strip(pieces[Len(pieces)]) = <<>>
               THEN SubSeq(pieces, 1, Len(pieces) - 1) ELSE pieces
  IN IF Len(s) < 2 \/ \E i \in 1..Len(inner) : inner[i] \in {"[", "]"}
     THEN [ok |-> FALSE, out |-> <<>>]
     ELSE IF Strip(inner) = <<>> THEN [ok |-> TRUE, out |-> <<>>]
     ELSE IF \A i \in 1..Len(items) : LiteralItem(items[i]).ok
     THEN [ok |-> TRUE, out |-> [i \in 1..Len(items) |-> LiteralItem(items[i]).val]]
     ELSE [ok |-> FALSE, out |-> <<>>]

RECURSIVE SelectInts(_)
\* Lines 72-78: int(x) of every element, the elements int() rejects skipped.
SelectInts(xs) ==
  IF xs = <<>> THEN <<>>
  ELSE (IF PyInt(xs[1]).ok THEN <<PyInt(xs[1]).val>> ELSE <<>>) \o SelectInts(Tail(xs))

\* The filter of lines 87, 90 and 100: x.strip().lstrip('-').isdigit()
LooksNumeric(x) == IsDigit(LStrip(Strip(x), {"-"}))

\* [int(x) for x in tokens if LooksNumeric(x)]: int() is not guarded, so
\* a token the filter lets through and int() rejects raises ValueError.
IntsOfTokens(tokens) ==
  LET kept == SelectSeq(tokens, LooksNumeric)
  IN IF \A i \in 1..Len(kept) : PyIntStr(kept[i]).ok
     THEN [ok |-> TRUE, out |-> [i \in 1..Len(kept) |-> PyIntStr(kept[i]).val]]
     ELSE [ok |-> FALSE, out |-> <<>>]

\* parse_list (lines 68-91).  [ok |-> FALSE] is an exception leaving it.
parse_list(raw) ==
  IF raw.tag = "none" \/ (raw.tag = "str" /\ raw.txt = <<>>)
  THEN [ok |-> TRUE, out |-> <<>>]
  ELSE IF raw.tag = "list" THEN [ok |-> TRUE, out |-> SelectInts(raw.items)]
  ELSE IF raw.tag = "int" THEN [ok |-> TRUE, out |-> <<raw.val>>]
  ELSE LET s == Strip(raw.txt)
           lit == IF StartsWith(s, "[") /\ EndsWith(s, "]")
                  THEN LiteralEvalFlat(s) ELSE [ok |-> FALSE, out |-> <<>>]
       IN IF lit.ok THEN lit
          ELSE IntsOfTokens(ReSplit(s, {";", ","} \cup WS))

\* parse_manual_ids (lines 93-102): the loop appends int(p) unguarded.
parse_manual_ids(raw) ==
  IF raw = <<>> THEN [ok |-> TRUE, out |-> <<>>]
  ELSE LET parts == PySplit(Strip(raw), <<";">>)
       IN IntsOfTokens([i \in 1..Len(parts) |-> Strip(parts[i])])

\* dict.get(k, default)
MapGet(m, k, default) == IF k \in DOMAIN m THEN m[k] ELSE default

\* Faulty variant: an id absent from the mapping resolves to the sentinel, not to "".
resolve_string_absent_sentinel(num_list, template, artist_map, placeholder_token) ==
  IF template = <<>> THEN template
  ELSE IF placeholder_token = <<>> THEN template
  ELSE LET replacement ==
             IF num_list # <<>>
             THEN IF PyInt(num_list[1]).ok
                  THEN MapGet(artist_map, PyInt(num_list[1]).val, NOT_FOUND)
                  ELSE NOT_FOUND
             ELSE <<>>
       IN PyReplace(template, placeholder_token, replacement)

\* resolve_string (lines 105-123)
resolve_string(num_list, template, artist_map, placeholder_token) ==
  IF template = <<>> THEN template
  ELSE IF placeholder_token = <<>> THEN template
  ELSE LET replacement ==
             IF num_list # <<>>
             THEN IF PyInt(num_list[1]).ok
                  THEN MapGet(artist_map, PyInt(num_list[1]).val, <<>>)
                  ELSE NOT_FOUND
             ELSE <<>>
       IN PyReplace(template, placeholder_token, replacement)

\* Faulty variant: an empty slot is skipped instead of given a one-element list.
mirror_skip_empty(id_lists, enable) ==
  IF ~enable THEN id_lists
  ELSE IF id_lists = <<>> \/ id_lists[1] = <<>> THEN id_lists
  ELSE [i \in 1..Len(id_lists) |->
          IF i = 1 THEN id_lists[1]
          ELSE IF id_lists[i] # <<>>
               THEN [id_lists[i] EXCEPT ![1] = id_lists[1][1]]
               ELSE <<>>]

\* Faulty variant: the first id is inserted in front of a slot's entries instead of
\* overwriting its first entry.
mirror_insert(id_lists, enable) ==
  IF ~enable THEN id_lists
  ELSE IF id_lists = <<>> \/ id_lists[1] = <<>> THEN id_lists
  ELSE [i \in 1..Len(id_lists) |->
          IF i = 1 THEN id_lists[1] ELSE <<id_lists[1][1]>> \o id_lists[i]]

\* mirror_first_id_across_slots (lines 125-140)
mirror_first_id_across_slots(id_lists, enable) ==
  IF ~enable THEN id_lists
  ELSE IF id_lists = <<>> \/ id_lists[1] = <<>> THEN id_lists
  ELSE [i \in 1..Len(id_lists) |->
          IF i = 1 THEN id_lists[1]
          ELSE IF id_lists[i] # <<>>
               THEN [id_lists[i] EXCEPT ![1] = id_lists[1][1]]
               ELSE <<id_lists[1][1]>>]

\* ------------------------------------------------------------------------
\* process (lines 145-256)
\* ------------------------------------------------------------------------
VARIABLES
  \* the arguments of process
  id_sequences, prompt_list, term_mappings,
  mirror_first_prompt, auto_step_ids, manual_ids, mirror_first_id,
  manual_ids_list, increment_base, placeholder_token, prompt_delimiter,
  \* its locals
  pc, str_parts, num_slots, seq, id_lists, artist_map, debug_log, base,
  forced_vals, all_results, joined, primary_ids, ret,
  \* a caller of mirror_first_id_across_slots alone: its position, the toggle,
  \* the list object it passes (mutated in place), copies of it taken before
  \* the first call and after it
  m_pc, m_enable, m_lists, m_arg, m_once

args == <<id_sequences, prompt_list, term_mappings, mirror_first_prompt,
          auto_step_ids, manual_ids, mirror_first_id, manual_ids_list,
          increment_base, placeholder_token, prompt_delimiter>>
locals == <<pc, str_parts, num_slots, seq, id_lists, artist_map, debug_log, base,
            forced_vals, all_results, joined, primary_ids, ret>>
caller == <<m_pc, m_enable, m_lists, m_arg, m_once>>
vars == <<args, locals, caller>>

T_None == <<"N", "o", "n", "e">>
T_True == <<"T", "r", "u", "e">>
T_False == <<"F", "a", "l", "s", "e">>
L_num_slots == <<"n", "u", "m", "_", "s", "l", "o", "t", "s", "=">>
L_id_sequences == <<"i", "d", "_", "s", "e", "q", "u", "e", "n", "c", "e", "s", "=">>
L_mfp == <<"m", "i", "r", "r", "o", "r", "_", "f", "i", "r", "s", "t", "_", "p", "r", "o", "m", "p", "t", "=">>
L_asi == <<";", " ", "a", "u", "t", "o", "_", "s", "t", "e", "p", "_", "i", "d", "s", "=">>
L_mi == <<";", " ", "m", "a", "n", "u", "a", "l", "_", "i", "d", "s", "=">>
L_mil == <<"m", "a", "n", "u", "a", "l", "_", "i", "d", "s", "_", "l", "i", "s", "t", "=">>
L_auto == <<"a", "u", "t", "o", "_", "s", "t", "e", "p", "_", "i", "d", "s", " ", "a", "p", "p", "l", "i", "e", "d", " ", "w", "i", "t", "h", " ", "b", "a", "s", "e", "=">>
L_manual == <<"S", "A", "F", "E", " ", "m", "a", "n", "u", "a", "l", "_", "i", "d", "s", " ", "o", "v", "e", "r", "r", "i", "d", "e", " ", "a", "p", "p", "l", "i", "e", "d", " ", "(", "l", "i", "t", "e", "r", "a", "l", " ", "N", "O", "T", "_", "F", "O", "U", "N", "D", ")", ".">>

\* str(b) of a bool inside an f-string
BoolToStr(b) == IF b THEN T_True ELSE T_False
\* repr of one entry of seq: an int or None
ReprEntry(v) == IF v.tag = "int" THEN IntToStr(v.val) ELSE T_None
\* repr of the list seq, as f"{seq}" prints it
ReprList(xs) ==
  <<"[">> \o PyJoin([i \in 1..Len(xs) |-> ReprEntry(xs[i])], <<",", " ">>) \o <<"]">>

\* Lines 160-161 / 165-166: pad the parsed ints with None up to num_slots.
PadSeq(out, n) ==
  [i \in 1..(IF Len(out) < n THEN n ELSE Len(out)) |->
     IF i <= Len(out) THEN IntV(out[i]) ELSE NoneV]

\* Lines 168-170: one list per slot, empty where the entry is None.
BuildIdLists(sq, n) ==
  [i \in 1..n |-> IF sq[i] # NoneV THEN <<sq[i]>> ELSE <<>>]

RECURSIVE BuildArtistMap(_, _)
\* Lines 180-189: the lines in order, a later key overwriting an earlier one;
\* a line without "_" (unpacking fails) or with a non-integer key is skipped.
BuildArtistMap(lines, m) ==
  IF lines = <<>> THEN m
  ELSE LET line == Strip(lines[1])
           parts == PySplit1(line, <<"_">>)
           key == PyIntStr(Strip(parts[1]))
           m2 == IF line # <<>> /\ Len(parts) = 2 /\ key.ok
                 THEN [k \in DOMAIN m \cup {key.val} |->
                         IF k = key.val THEN Strip(parts[2]) ELSE m[k]]
                 ELSE m
       IN BuildArtistMap(Tail(lines), m2)

\* Faulty variant: the check that base is not None is missing.
AutoStepApplies_no_base_check(toggle, raw_base) == toggle

\* Line 205: the auto-step runs when the toggle is on and base is not None.
AutoStepApplies(toggle, raw_base) == toggle /\ PyInt(raw_base).ok

\* Faulty variant: the last template is mirrored instead of the first.
MirrorTemplates_last(parts, enable, n) ==
  IF enable /\ parts # <<>> THEN [i \in 1..n |-> parts[Len(parts)]] ELSE parts

\* Lines 213-215: every slot gets the first template.
MirrorTemplates(parts, enable, n) ==
  IF enable /\ parts # <<>> THEN [i \in 1..n |-> parts[1]] ELSE parts

\* Faulty variant: the slot index counted from 1.
AutoStepSlot_one_based(lst, b, i) ==
  IF lst # <<>> THEN <<IntV(b + i)>> \o Tail(lst) ELSE <<IntV(b + i)>>

\* Line 207: the new list of slot i (1-based) under auto-step.
AutoStepSlot(lst, b, i) ==
  IF lst # <<>> THEN <<IntV(b + (i - 1))>> \o Tail(lst) ELSE <<IntV(b + (i - 1))>>

\* Faulty variant: a slot without an override is left empty instead of ["NOT_FOUND"].
ManualSlot_empty(forced, i) ==
  IF i <= Len(forced) THEN <<IntV(forced[i])>> ELSE <<>>

\* Lines 224-229: the list of slot i (1-based) under the manual override.
ManualSlot(forced, i) ==
  IF i <= Len(forced) THEN <<IntV(forced[i])>> ELSE <<StrV(NOT_FOUND)>>

\* Faulty variant: an id absent from the mapping displays an empty name.
PrimaryIdOf_empty_name(lst, m) ==
  IF lst # <<>> /\ lst[1] # StrV(NOT_FOUND)
  THEN IF PyInt(lst[1]).ok
       THEN [ok |-> TRUE,
             out |-> ReprEntry(lst[1]) \o <<"_">> \o MapGet(m, PyInt(lst[1]).val, <<>>)]
       ELSE [ok |-> FALSE, out |-> <<>>]
  ELSE [ok |-> TRUE, out |-> NOT_FOUND]

\* Lines 248-254: the display string of one slot; [ok |-> FALSE] is int(val)
\* raising at line 250.
PrimaryIdOf(lst, m) ==
  IF lst # <<>> /\ lst[1] # StrV(NOT_FOUND)
  THEN IF PyInt(lst[1]).ok
       THEN [ok |-> TRUE,
             out |-> ReprEntry(lst[1]) \o <<"_">> \o MapGet(m, PyInt(lst[1]).val, NOT_FOUND)]
       ELSE [ok |-> FALSE, out |-> <<>>]
  ELSE [ok |-> TRUE, out |-> NOT_FOUND]

\* Lines 153-154.  str.split raises ValueError on an empty separator.
SplitTemplates ==
  /\ pc = "split"
  /\ IF prompt_delimiter = <<>>
     THEN /\ pc' = "raised"
          /\ UNCHANGED <<str_parts, num_slots>>
     ELSE /\ str_parts' = PySplit(prompt_list, prompt_delimiter)
          /\ num_slots' = Len(PySplit(prompt_list, prompt_delimiter))
          /\ pc' = "parse1"
  /\ UNCHANGED <<args, caller, seq, id_lists, artist_map, debug_log, base,
                 forced_vals, all_results, joined, primary_ids, ret>>

\* Lines 159-161.
ParseFirst ==
  /\ pc = "parse1"
  /\ IF parse_list(id_sequences).ok
     THEN /\ seq' = PadSeq(parse_list(id_sequences).out, num_slots)
          /\ pc' = "parse2"
     ELSE /\ pc' = "raised"
          /\ UNCHANGED seq
  /\ UNCHANGED <<args, caller, str_parts, num_slots, id_lists, artist_map, debug_log,
                 base, forced_vals, all_results, joined, primary_ids, ret>>

\* Lines 164-170.
ParseAndBuild ==
  /\ pc = "parse2"
  /\ IF parse_list(id_sequences).ok
     THEN /\ seq' = PadSeq(parse_list(id_sequences).out, num_slots)
          /\ id_lists' = BuildIdLists(PadSeq(parse_list(id_sequences).out, num_slots),
                                      num_slots)
          /\ pc' = "mirror1"
     ELSE /\ pc' = "raised"
          /\ UNCHANGED <<seq, id_lists>>
  /\ UNCHANGED <<args, caller, str_parts, num_slots, artist_map, debug_log,
                 base, forced_vals, all_results, joined, primary_ids, ret>>

\* Line 172.
MirrorIds1 ==
  /\ pc = "mirror1"
  /\ id_lists' = mirror_first_id_across_slots(id_lists, mirror_first_id)
  /\ pc' = "mirror2"
  /\ UNCHANGED <<args, caller, str_parts, num_slots, seq, artist_map, debug_log,
                 base, forced_vals, all_results, joined, primary_ids, ret>>

\* Line 175.
MirrorIds2 ==
  /\ pc = "mirror2"
  /\ id_lists' = mirror_first_id_across_slots(id_lists, mirror_first_id)
  /\ pc' = "map"
  /\ UNCHANGED <<args, caller, str_parts, num_slots, seq, artist_map, debug_log,
                 base, forced_vals, all_results, joined, primary_ids, ret>>

\* Lines 180-195: the artist map and the head of the debug log.
BuildMapAndLog ==
  /\ pc = "map"
  /\ artist_map' = BuildArtistMap(SplitLines(term_mappings), <<>>)
  /\ debug_log' = << L_num_slots \o IntToStr(num_slots),
                     L_id_sequences \o ReprList(seq),
                     L_mfp \o BoolToStr(mirror_first_prompt)
                       \o L_asi \o BoolToStr(auto_step_ids)
                       \o L_mi \o BoolToStr(manual_ids),
                     L_mil \o manual_ids_list >>
  /\ pc' = "autostep"
  /\ UNCHANGED <<args, caller, str_parts, num_slots, seq, id_lists,
                 base, forced_vals, all_results, joined, primary_ids, ret>>

\* Lines 200-208.  base is None when int(increment_base) raises.
AutoStep ==
  /\ pc = "autostep"
  /\ base' = IF PyInt(increment_base).ok THEN IntV(PyInt(increment_base).val) ELSE NoneV
  /\ IF AutoStepApplies(auto_step_ids, increment_base)
     THEN /\ id_lists' = [i \in 1..num_slots |->
                            AutoStepSlot(id_lists[i], PyInt(increment_base).val, i)]
          /\ debug_log' = Append(debug_log,
                                 L_auto \o IntToStr(PyInt(increment_base).val))
     ELSE UNCHANGED <<id_lists, debug_log>>
  /\ pc' = "mirror_prompt"
  /\ UNCHANGED <<args, caller, str_parts, num_slots, seq, artist_map,
                 forced_vals, all_results, joined, primary_ids, ret>>

\* Lines 213-215.
MirrorPrompt ==
  /\ pc = "mirror_prompt"
  /\ str_parts' = MirrorTemplates(str_parts, mirror_first_prompt, num_slots)
  /\ pc' = "manual"
  /\ UNCHANGED <<args, caller, num_slots, seq, id_lists, artist_map, debug_log, base,
                 forced_vals, all_results, joined, primary_ids, ret>>

\* Lines 220-230.  parse_manual_ids runs whatever the toggle is.
ManualOverride ==
  /\ pc = "manual"
  /\ IF ~parse_manual_ids(manual_ids_list).ok
     THEN /\ pc' = "raised"
          /\ UNCHANGED <<forced_vals, id_lists, debug_log>>
     ELSE /\ forced_vals' = parse_manual_ids(manual_ids_list).out
          /\ IF manual_ids
             THEN /\ id_lists' = [i \in 1..num_slots |->
                                    ManualSlot(parse_manual_ids(manual_ids_list).out, i)]
                  /\ debug_log' = Append(debug_log, L_manual)
             ELSE UNCHANGED <<id_lists, debug_log>>
          /\ pc' = "resolve"
  /\ UNCHANGED <<args, caller, str_parts, num_slots, seq, artist_map, base,
                 all_results, joined, primary_ids, ret>>

\* Lines 235-240.
Resolve ==
  /\ pc = "resolve"
  /\ all_results' = [i \in 1..num_slots |->
                       resolve_string(id_lists[i], str_parts[i], artist_map,
                                      placeholder_token)]
  /\ joined' = PyJoin([i \in 1..num_slots |->
                         resolve_string(id_lists[i], str_parts[i], artist_map,
                                        placeholder_token)], OUT_SEP)
  /\ pc' = "primary"
  /\ UNCHANGED <<args, caller, str_parts, num_slots, seq, id_lists, artist_map,
                 debug_log, base, forced_vals, primary_ids, ret>>

\* Lines 245-256: the display strings, then the returned triple.
PrimaryAndReturn ==
  /\ pc = "primary"
  /\ IF \A i \in 1..Len(id_lists) : PrimaryIdOf(id_lists[i], artist_map).ok
     THEN /\ primary_ids' = [i \in 1..Len(id_lists) |->
                               PrimaryIdOf(id_lists[i], artist_map).out]
          /\ ret' = << joined,
                       PyJoin(debug_log, <<"\n">>),
                       PyJoin([i \in 1..Len(id_lists) |->
                                 PrimaryIdOf(id_lists[i], artist_map).out], <<";">>) >>
          /\ pc' = "done"
     ELSE /\ pc' = "raised"
          /\ UNCHANGED <<primary_ids, ret>>
  /\ UNCHANGED <<args, caller, str_parts, num_slots, seq, id_lists, artist_map,
                 debug_log, base, forced_vals, all_results, joined>>

\* A caller applying mirror_first_id_across_slots twice to one list object.
MirrorCall1 ==
  /\ m_pc = "call1"
  /\ m_lists' = mirror_first_id_across_slots(m_lists, m_enable)
  /\ m_once' = mirror_first_id_across_slots(m_lists, m_enable)
  /\ m_pc' = "call2"
  /\ UNCHANGED <<args, locals, m_enable, m_arg>>

MirrorCall2 ==
  /\ m_pc = "call2"
  /\ m_lists' = mirror_first_id_across_slots(m_lists, m_enable)
  /\ m_pc' = "returned"
  /\ UNCHANGED <<args, locals, m_enable, m_arg, m_once>>

Next ==
  \/ SplitTemplates
  \/ ParseFirst
  \/ ParseAndBuild
  \/ MirrorIds1
  \/ MirrorIds2
  \/ BuildMapAndLog
  \/ AutoStep
  \/ MirrorPrompt
  \/ ManualOverride
  \/ Resolve
  \/ PrimaryAndReturn
  \/ MirrorCall1
  \/ MirrorCall2

\* ------------------------------------------------------------------------
\* Inputs
\* ------------------------------------------------------------------------
MaxSlots == 3
MaxIds == 3
MaxManualLen == 4
MaxPromptLen == 4
MaxIdTextLen == 3
MaxBase == 2
MaxMirrorSlots == 3
MaxMirrorEntries == 2

\* Every string over alphabet A of length at most n.
Strs(A, n) == UNION {[1..k -> A] : k \in 0..n}

S_prompts == <<"H", "e", "l", "l", "o", " ", "[", "a", "1", "]", "!", ";", ";", ";", ";", ";", "W", "o", "r", "l", "d", " ", "[", "a", "1", "]">>
S_map == <<"5", "_", "A", "l", "i", "c", "e", "\n", "7", "_", "B", "o", "b">>
S_tok == <<"[", "a", "1", "]">>
S_delim == <<";", ";", ";", ";", ";">>
\* "5_A\n x \n7_B\n5_C": a malformed line, a duplicate key.
M_dup == <<"5", "_", "A", "\n", " ", "x", " ", "\n", "7", "_", "B", "\n", "5", "_", "C">>
\* "5_;;\n7_B": a name that holds separator characters.
M_semi == <<"5", "_", ";", ";", "\n", "7", "_", "B">>
M_plain == <<"5", "_", "A", "\n", "7", "_", "B">>

\* prompt_list of n slots "aT", "bT", ... cut by "|".
SlotPrompt(n) ==
  PyJoin([i \in 1..n |-> <<<<"a", "b", "c", "d", "e">>[((i - 1) % 5) + 1], "T">>], <<"|">>)

\* process is entered; nobody calls the helper alone.
ProcessStart ==
  /\ pc = "split"
  /\ str_parts = <<>> /\ num_slots = 0 /\ seq = <<>> /\ id_lists = <<>>
  /\ artist_map = <<>> /\ debug_log = <<>> /\ base = NoneV /\ forced_vals = <<>>
  /\ all_results = <<>> /\ joined = <<>> /\ primary_ids = <<>> /\ ret = <<>>
  /\ m_pc = "idle" /\ m_enable = FALSE /\ m_lists = <<>> /\ m_arg = <<>> /\ m_once = <<>>

\* The two-template scenario: ids [5, 7], names Alice and Bob, every toggle.
ScenarioInputs ==
  /\ prompt_list = S_prompts /\ prompt_delimiter = S_delim
  /\ placeholder_token = S_tok /\ term_mappings = S_map
  /\ id_sequences = ListV(<<IntV(5), IntV(7)>>)
  /\ manual_ids_list \in {<<>>, <<"9">>}
  /\ increment_base = IntV(0)
  /\ mirror_first_prompt \in BOOLEAN /\ auto_step_ids \in BOOLEAN
  /\ manual_ids \in BOOLEAN /\ mirror_first_id \in BOOLEAN

\* Native lists, scalars and None as id_sequences.
IdInputs ==
  /\ id_sequences \in {ListV(xs) : xs \in Strs({IntV(5), IntV(7), NoneV}, MaxIds)}
                        \cup {IntV(7), NoneV, ListV(<<IntV(-5)>>),
                              ListV(<<StrV(<<"5">>), StrV(<<"x">>)>>)}
  /\ prompt_list \in {SlotPrompt(n) : n \in 1..MaxSlots}
  /\ prompt_delimiter = <<"|">> /\ placeholder_token = <<"T">>
  /\ term_mappings = M_plain
  /\ manual_ids_list \in {<<>>, <<"9">>}
  /\ increment_base \in {IntV(MaxBase), NoneV}
  /\ mirror_first_prompt = FALSE /\ auto_step_ids \in BOOLEAN
  /\ manual_ids \in BOOLEAN /\ mirror_first_id \in BOOLEAN

\* Manual override texts.
ManualInputs ==
  /\ id_sequences \in {ListV(<<IntV(5), IntV(7)>>), ListV(<<>>)}
  /\ prompt_list \in {SlotPrompt(n) : n \in {1, MaxSlots}}
  /\ prompt_delimiter = <<"|">> /\ placeholder_token = <<"T">>
  /\ term_mappings = M_dup
  /\ manual_ids_list \in Strs({"7", "-", ";", " "}, MaxManualLen)
  /\ increment_base = IntV(0)
  /\ mirror_first_prompt = FALSE /\ auto_step_ids = FALSE
  /\ manual_ids \in BOOLEAN /\ mirror_first_id = FALSE

\* Increment bases: ints, None, numeric and non-numeric text.
BaseInputs ==
  /\ id_sequences \in {ListV(<<IntV(5), IntV(7)>>), ListV(<<>>)}
  /\ prompt_list \in {SlotPrompt(n) : n \in 1..MaxSlots}
  /\ prompt_delimiter = <<"|">> /\ placeholder_token = <<"T">>
  /\ term_mappings = M_plain
  /\ manual_ids_list = <<"7">>
  /\ increment_base \in {IntV(b) : b \in -1..MaxBase}
                          \cup {NoneV, StrV(<<"3">>), StrV(<<"x">>)}
  /\ mirror_first_prompt = FALSE /\ auto_step_ids \in BOOLEAN
  /\ manual_ids \in BOOLEAN /\ mirror_first_id \in BOOLEAN

\* Templates, tokens, delimiters and names that hold separator characters.
TextInputs ==
  /\ id_sequences \in {ListV(<<IntV(5), IntV(7)>>), ListV(<<IntV(9)>>)}
  /\ prompt_list \in Strs({"T", ";", "|"}, MaxPromptLen)
  /\ prompt_delimiter \in {<<"|">>, <<";">>, <<>>}
  /\ placeholder_token \in {<<"T">>, <<"T", "T">>, <<>>}
  /\ term_mappings \in {M_plain, M_semi}
  /\ manual_ids_list = <<>>
  /\ increment_base = IntV(0)
  /\ mirror_first_prompt \in BOOLEAN /\ auto_step_ids = FALSE
  /\ manual_ids = FALSE /\ mirror_first_id = FALSE

\* id_sequences as text: separator-delimited, or a bracketed flat list.
ParseInputs ==
  /\ id_sequences \in {StrV(t) : t \in Strs({"5", "7", "-", ";", " "}, MaxIdTextLen)}
        \cup {StrV(<<"[">> \o t \o <<"]">>) : t \in Strs({"5", "-", ",", " "}, MaxIdTextLen)}
  /\ prompt_list \in {SlotPrompt(n) : n \in {1, MaxSlots}}
  /\ prompt_delimiter = <<"|">> /\ placeholder_token = <<"T">>
  /\ term_mappings = M_plain
  /\ manual_ids_list = <<>>
  /\ increment_base = IntV(0)
  /\ mirror_first_prompt = FALSE /\ auto_step_ids = FALSE
  /\ manual_ids = FALSE /\ mirror_first_id \in BOOLEAN

\* mirror_first_id_across_slots called on its own: any list of lists, either
\* toggle; process is not running.
MirrorStart ==
  /\ m_pc = "call1"
  /\ m_enable \in BOOLEAN
  /\ m_lists \in Strs(Strs({IntV(5), IntV(7)}, MaxMirrorEntries), MaxMirrorSlots)
  /\ m_arg = m_lists
  /\ m_once = <<>>
  /\ pc = "idle"
  /\ id_sequences = NoneV /\ prompt_list = <<>> /\ term_mappings = <<>>
  /\ mirror_first_prompt = FALSE /\ auto_step_ids = FALSE /\ manual_ids = FALSE
  /\ mirror_first_id = FALSE /\ manual_ids_list = <<>> /\ increment_base = NoneV
  /\ placeholder_token = <<>> /\ prompt_delimiter = <<>>
  /\ str_parts = <<>> /\ num_slots = 0 /\ seq = <<>> /\ id_lists = <<>>
  /\ artist_map = <<>> /\ debug_log = <<>> /\ base = NoneV /\ forced_vals = <<>>
  /\ all_results = <<>> /\ joined = <<>> /\ primary_ids = <<>> /\ ret = <<>>

Init ==
  \/ /\ ProcessStart
     /\ \/ ScenarioInputs
        \/ IdInputs
        \/ ManualInputs
        \/ BaseInputs
        \/ TextInputs
        \/ ParseInputs
  \/ MirrorStart

Spec == Init /\ [][Next]_vars

\* ------------------------------------------------------------------------
\* Properties
\* ------------------------------------------------------------------------
\* Literals of the properties, written out independently of the model's.
X_sep == <<";", ";", ";", ";", ";">>
X_nf == <<"N", "O", "T", "_", "F", "O", "U", "N", "D">>
X_out == <<"H", "e", "l", "l", "o", " ", "A", "l", "i", "c", "e", "!", ";", ";", ";", ";", ";", "W", "o", "r", "l", "d", " ", "B", "o", "b">>
X_pids == <<"5", "_", "A", "l", "i", "c", "e", ";", "7", "_", "B", "o", "b">>
X_pids_manual == <<"9", "_", "N", "O", "T", "_", "F", "O", "U", "N", "D", ";", "N", "O", "T", "_", "F", "O", "U", "N", "D">>
X_pid_neg == <<"-", "5", "_", "N", "O", "T", "_", "F", "O", "U", "N", "D">>
X_debug == <<"n", "u", "m", "_", "s", "l", "o", "t", "s", "=", "2", "\n", "i", "d", "_", "s", "e", "q", "u", "e", "n", "c", "e", "s", "=", "[", "5", ",", " ", "7", "]", "\n", "m", "i", "r", "r", "o", "r", "_", "f", "i", "r", "s", "t", "_", "p", "r", "o", "m", "p", "t", "=", "F", "a", "l", "s", "e", ";", " ", "a", "u", "t", "o", "_", "s", "t", "e", "p", "_", "i", "d", "s", "=", "F", "a", "l", "s", "e", ";", " ", "m", "a", "n", "u", "a", "l", "_", "i", "d", "s", "=", "F", "a", "l", "s", "e", "\n", "m", "a", "n", "u", "a", "l", "_", "i", "d", "s", "_", "l", "i", "s", "t", "=">>

\* The id lists are final: every step that writes them has run.
AtResolution == pc \in {"resolve", "primary", "done"}
NoToggles == ~mirror_first_prompt /\ ~auto_step_ids /\ ~manual_ids /\ ~mirror_first_id
Scenario == prompt_list = S_prompts
HasChar(str, c) == \E k \in 1..Len(str) : str[k] = c
B2N(b) == IF b THEN 1 ELSE 0

\* C1: for all inputs process returns three strings and never raises.
C1_NeverFails == pc # "raised" /\ (pc = "done" => Len(ret) = 3)

\* C2 (as claimed): whenever process returns, splitting resolved_prompts on
\* ";;;;;" yields exactly as many segments as splitting prompt_list on
\* prompt_delimiter.
C2_SplitCount ==
  pc = "done" =>
    Len(PySplit(ret[1], X_sep)) = Len(PySplit(prompt_list, prompt_delimiter))

\* C2 (amended): resolved_prompts is the ";;;;;"-join of exactly num_slots
\* resolved segments, num_slots being the number of pieces of prompt_list cut
\* at prompt_delimiter; splitting it on ";;;;;" gives num_slots segments when
\* no resolved segment holds a ";".
C2_SplitCountNoSemicolon ==
  pc = "done" =>
    /\ num_slots = Len(PySplit(prompt_list, prompt_delimiter))
    /\ Len(all_results) = num_slots
    /\ ret[1] = PyJoin(all_results, X_sep)
    /\ (\A i \in 1..Len(all_results) : ~HasChar(all_results[i], ";"))
         => Len(PySplit(ret[1], X_sep)) = num_slots

\* C2 witness: three slots cut at "|", fewer ids than slots, segments without
\* ";" and not all empty.
C2_Witness ==
  /\ pc = "done" /\ num_slots = 3 /\ prompt_delimiter = <<"|">>
  /\ seq[3] = NoneV /\ seq[1] # NoneV
  /\ \A i \in 1..3 : ~HasChar(all_results[i], ";")
  /\ all_results[1] # <<>>
  /\ Len(PySplit(ret[1], X_sep)) = 3

\* C3: with manual_ids on, at resolution every slot's list is exactly one
\* element: the i-th integer parsed from manual_ids_list, or "NOT_FOUND" when
\* there is none, whatever the other toggles and inputs.
C3_ManualOverride ==
  (AtResolution /\ manual_ids) =>
    /\ forced_vals = parse_manual_ids(manual_ids_list).out
    /\ Len(id_lists) = num_slots
    /\ \A i \in 1..num_slots :
         /\ Len(id_lists[i]) = 1
         /\ id_lists[i][1] = IF i <= Len(forced_vals)
                             THEN IntV(forced_vals[i]) ELSE StrV(X_nf)

\* C3 witness: the override wins over mirroring and an applied auto-step, one
\* override value for three slots.
C3_Witness ==
  /\ pc = "done" /\ manual_ids /\ auto_step_ids /\ mirror_first_id
  /\ base.tag = "int" /\ num_slots = 3 /\ seq[1] # NoneV
  /\ Len(forced_vals) = 1
  /\ id_lists[1] = <<IntV(9)>> /\ id_lists[3] = <<StrV(X_nf)>>

\* C4: with auto_step_ids on, increment_base convertible to B and manual_ids
\* off, at resolution slot i (from 0) has primary id B + i; and an auto-step
\* that does not apply (toggle off or base not convertible) leaves id_lists
\* as it found them.
C4_AutoStep ==
  /\ [](( AtResolution /\ auto_step_ids /\ PyInt(increment_base).ok /\ ~manual_ids) =>
          \A i \in 1..num_slots :
            /\ id_lists[i] # <<>>
            /\ id_lists[i][1] = IntV(PyInt(increment_base).val + (i - 1)))
  /\ [][(pc = "autostep" /\ ~(auto_step_ids /\ PyInt(increment_base).ok))
          => id_lists' = id_lists]_vars

\* C4 witness: three slots, the last without an id, mirroring applied first,
\* then auto-step from base 2.
C4_Witness ==
  /\ pc = "done" /\ auto_step_ids /\ ~manual_ids /\ mirror_first_id
  /\ increment_base = IntV(2) /\ num_slots = 3
  /\ seq[1] = IntV(5) /\ seq[3] = NoneV
  /\ id_lists = << <<IntV(2)>>, <<IntV(3)>>, <<IntV(4)>> >>

\* Slot 0 is as built from seq, and every slot's primary id is slot 0's (none
\* anywhere when slot 0 has none).
MirroredIds ==
  /\ Len(id_lists) = num_slots
  /\ id_lists[1] = (IF seq[1] # NoneV THEN <<seq[1]>> ELSE <<>>)
  /\ IF id_lists[1] = <<>>
     THEN \A i \in 1..num_slots : id_lists[i] = <<>>
     ELSE \A i \in 1..num_slots : id_lists[i] = <<id_lists[1][1]>>

\* C5: with mirror_first_id on, after the mirroring step and before auto-step
\* or manual override every slot's primary id is slot 0's, slot 0 unchanged,
\* and none anywhere when slot 0 has none; with auto_step_ids and manual_ids
\* off the same holds at resolution.
C5_MirrorFirstId ==
  /\ (mirror_first_id /\ pc \in {"mirror2", "map", "autostep"}) => MirroredIds
  /\ (mirror_first_id /\ ~auto_step_ids /\ ~manual_ids /\ AtResolution) => MirroredIds

\* C5 witness: slots 5, 7 and an empty one all end with 5.
C5_Witness ==
  /\ pc = "done" /\ mirror_first_id /\ ~auto_step_ids /\ ~manual_ids
  /\ num_slots = 3 /\ seq[1] = IntV(5) /\ seq[2] = IntV(7) /\ seq[3] = NoneV
  /\ id_lists = << <<IntV(5)>>, <<IntV(5)>>, <<IntV(5)>> >>

\* C6: with mirror_first_prompt on, resolved segment i is the resolution of
\* template 0 with slot i's own id list; off, of template i; the step changes
\* neither the slot count nor the id lists.
C6_MirrorFirstPrompt ==
  /\ [](pc = "done" =>
          /\ Len(all_results) = Len(PySplit(prompt_list, prompt_delimiter))
          /\ \A i \in 1..Len(all_results) :
               all_results[i] =
                 resolve_string(id_lists[i],
                                PySplit(prompt_list, prompt_delimiter)
                                  [IF mirror_first_prompt THEN 1 ELSE i],
                                artist_map, placeholder_token))
  /\ [][pc = "mirror_prompt" => (id_lists' = id_lists /\ num_slots' = num_slots)]_vars

\* C6 witness: two different templates, the first mirrored, the two segments
\* differing through their ids' names.
C6_Witness ==
  /\ pc = "done" /\ mirror_first_prompt /\ num_slots = 2
  /\ PySplit(prompt_list, prompt_delimiter)[1] # PySplit(prompt_list, prompt_delimiter)[2]
  /\ str_parts[1] = str_parts[2]
  /\ all_results[1] # all_results[2]
  /\ all_results[1] # str_parts[1]

\* The replacement text the claim gives for an id list.
ExpectedReplacement(lst) ==
  IF lst = <<>> THEN <<>>
  ELSE IF lst[1] = StrV(X_nf) \/ ~PyInt(lst[1]).ok THEN X_nf
  ELSE IF PyInt(lst[1]).val \in DOMAIN artist_map
       THEN artist_map[PyInt(lst[1]).val]
       ELSE <<>>

RECURSIVE SubstChar(_, _, _)
\* Every occurrence of the character c in str replaced by r.
SubstChar(str, c, r) ==
  IF str = <<>> THEN <<>>
  ELSE (IF str[1] = c THEN r ELSE <<str[1]>>) \o SubstChar(Tail(str), c, r)

\* C7: every resolved string is its template with each occurrence of the
\* token replaced by the mapped name (id in the mapping), "" (id absent, or
\* no id) or "NOT_FOUND" (sentinel); an empty template or an empty token
\* gives the template back; the Alice/Bob scenario gives
\* "Hello Alice!;;;;;World Bob".
C7_Resolve ==
  pc = "done" =>
    /\ \A i \in 1..num_slots :
         /\ (str_parts[i] = <<>> \/ placeholder_token = <<>>)
              => all_results[i] = str_parts[i]
         /\ (str_parts[i] # <<>> /\ placeholder_token # <<>>)
              => all_results[i] = PyReplace(str_parts[i], placeholder_token,
                                            ExpectedReplacement(id_lists[i]))
         /\ Len(placeholder_token) = 1
              => all_results[i] = SubstChar(str_parts[i], placeholder_token[1],
                                            ExpectedReplacement(id_lists[i]))
    /\ (Scenario /\ NoToggles) => ret[1] = X_out

\* C7 witness: one run with a mapped id, an id absent from the mapping and
\* the sentinel, each replacing a token that occurs in its template.
C7_Witness ==
  /\ pc = "done" /\ num_slots = 3 /\ placeholder_token = <<"T">>
  /\ id_lists[1] = <<IntV(7)>> /\ 7 \in DOMAIN artist_map
  /\ id_lists[2] = <<IntV(-7)>> /\ -7 \notin DOMAIN artist_map
  /\ id_lists[3] = <<StrV(X_nf)>>
  /\ all_results = << <<"a">> \o artist_map[7], <<"b">>, <<"c">> \o X_nf >>

\* The display string the claim gives for an id list.
ExpectedDisplay(lst) ==
  IF lst = <<>> \/ lst[1] = StrV(X_nf) THEN X_nf
  ELSE IntToStr(lst[1].val) \o <<"_">>
         \o (IF lst[1].val \in DOMAIN artist_map THEN artist_map[lst[1].val] ELSE X_nf)

\* C8: primary_ids is the ";"-join, in slot order, of one display string per
\* slot: "NOT_FOUND" for no id or the sentinel, else "<int>_<name>" with
\* "NOT_FOUND" as the name of an unmapped int; "9_NOT_FOUND;NOT_FOUND" and
\* "5_Alice;7_Bob" in the two scenarios.
C8_PrimaryIds ==
  pc = "done" =>
    /\ Len(primary_ids) = num_slots
    /\ ret[3] = PyJoin([i \in 1..num_slots |-> ExpectedDisplay(id_lists[i])], <<";">>)
    /\ (Scenario /\ NoToggles) => ret[3] = X_pids
    /\ (Scenario /\ manual_ids /\ manual_ids_list = <<"9">>) => ret[3] = X_pids_manual
    /\ (num_slots = 1 /\ id_lists = << <<IntV(-5)>> >>) => ret[3] = X_pid_neg

\* C8 witness: the manual-override scenario, one value for two slots.
C8_Witness ==
  /\ pc = "done" /\ Scenario /\ manual_ids /\ manual_ids_list = <<"9">>
  /\ ~auto_step_ids /\ ~mirror_first_id /\ ~mirror_first_prompt
  /\ ret[3] = X_pids_manual

\* C9: mirror_first_id_across_slots applied twice gives what one application
\* gives, for any list of lists and either toggle; in process the second of
\* the two consecutive calls and the second parse-and-pad change nothing.
C9_MirrorIdempotent ==
  /\ [](m_pc = "returned" => m_lists = m_once)
  /\ [][pc = "mirror2" => id_lists' = id_lists]_vars
  /\ [][pc = "parse2" => seq' = seq]_vars

\* C9 witness: a called-alone mirroring that changed its argument, with a slot
\* of two entries and an empty slot, applied twice.
C9_Witness ==
  /\ m_pc = "returned" /\ m_enable /\ Len(m_arg) = 3
  /\ m_arg[1] # <<>> /\ Len(m_arg[2]) = 2 /\ m_arg[2][1] # m_arg[1][1]
  /\ m_arg[3] = <<>>
  /\ m_once # m_arg /\ m_lists = m_once

AutoStepExecuted == auto_step_ids /\ PyInt(increment_base).ok

\* C10 (as claimed): the trace holds, after its four head lines, one note for
\* each conditional step that executed (mirror first id, auto-step, mirror
\* first prompt, manual override) and no other note.
C10_NotePerStep ==
  pc = "done" =>
    Len(debug_log) = 4 + B2N(mirror_first_id) + B2N(AutoStepExecuted)
                       + B2N(mirror_first_prompt) + B2N(manual_ids)

\* C10 (amended): the trace records the slot count, the parsed, None-padded id
\* sequence, the toggles mirror_first_prompt, auto_step_ids and manual_ids and
\* the raw manual text, then a note for the auto-step if it executed, then a
\* note for the manual override if it executed, and nothing else: the two
\* mirroring steps leave no note.
C10_NotesAutoAndManual ==
  pc = "done" =>
    /\ debug_log =
         << L_num_slots \o IntToStr(num_slots),
            L_id_sequences \o ReprList(seq),
            L_mfp \o BoolToStr(mirror_first_prompt) \o L_asi \o BoolToStr(auto_step_ids)
              \o L_mi \o BoolToStr(manual_ids),
            L_mil \o manual_ids_list >>
         \o (IF AutoStepExecuted
             THEN <<L_auto \o IntToStr(PyInt(increment_base).val)>> ELSE <<>>)
         \o (IF manual_ids THEN <<L_manual>> ELSE <<>>)
    /\ ret[2] = PyJoin(debug_log, <<"\n">>)
    /\ (Scenario /\ NoToggles /\ manual_ids_list = <<>>) => ret[2] = X_debug

\* C10 witness: all four conditional steps executed, two notes in the trace.
C10_Witness ==
  /\ pc = "done" /\ mirror_first_id /\ mirror_first_prompt
  /\ auto_step_ids /\ manual_ids /\ base.tag = "int"
  /\ Len(debug_log) = 6

====
